---- MODULE Spec2Model ----
(***************************************************************************)
(* Model of src/pacman/pac.py (class Pac): the transaction orchestration   *)
(* (install, upgrade, remove, refresh, finalize_transaction) against the   *)
(* alpm engine, the options of init_transaction, the event channel        *)
(* (queue_event) between the installer process and the GUI thread, and the *)
(* engine callbacks that feed it (cb_totaldl, cb_dl, cb_progress).         *)
(***************************************************************************)
EXTENDS Integers, Sequences, FiniteSets, TLC

VARIABLES
    \* ---- the alpm handle as Pac sees it
    syncdbs,        \* handle.get_syncdbs(): the sync repositories, in configured order
    localdb,        \* handle.get_localdb(): names of the installed packages
    open,           \* number of transactions initialised on the handle and not released
    \* ---- the public operation in progress
    op,             \* "none", "install", "upgrade", "remove", "refresh"
    pc,             \* "idle", "add", "finalize", "refresh", "done"
    pkgs,           \* install, upgrade: the request after "Discard duplicates";
                    \* remove: the names asked for
    conflicts,      \* install: the caller's conflict list (as a set of names)
    resolved,       \* install: the target list as it stands at line 321
    targets,        \* the list of targets still to be handed to the transaction
    idx,            \* refresh: position in the loop over the sync repositories
    res,            \* refresh: the local flag res
    trace,          \* the engine calls made by the operation, in order
    result,         \* "none", "True", "False", "raise" (a pyalpm.error left the call)
    total_packages_to_download,
    \* ---- the event channel
    callback_queue, \* TRUE when a consumer queue is attached, FALSE when it is None
    queue,          \* the content of callback_queue, oldest first
    unfinished,     \* queue.Queue.unfinished_tasks
    last_event,     \* self.last_event: kind -> text
    qpc,            \* the installer process: "run", "join", "exited"
    exit_status,    \* status passed to sys.exit, -1 while the process lives
    log,            \* the local log: records [level, text]
    sent,           \* every event put on the queue so far, in order
    ntaken,         \* number of events the consumer has taken (get)
    nacked,         \* number of events the consumer has acknowledged (task_done)
    calls,          \* number of queue_event calls made so far
    last_call,      \* the latest queue_event call: [kind, text, outcome]
    \* ---- the download tracker and the engine callbacks
    last_dl_filename,
    last_dl_progress,      \* a fraction <<n, d>>
    last_dl_total_size,
    downloaded_packages,
    total_download_size,
    ncb,            \* number of engine callbacks run so far
    cb,             \* the latest callback: [name, filename, transfer, total, emits]
    file_percents,  \* the percent values cb_dl passed to queue_event for the current file
    \* ---- the options of init_transaction
    options,        \* the options of the latest init_transaction call: key -> value
    flags           \* the flags that call passed to handle.init_transaction

txnvars == <<syncdbs, localdb, open, op, pc, pkgs, conflicts, resolved, targets, idx,
             res, trace, result, total_packages_to_download>>
trkvars == <<last_dl_filename, last_dl_progress, last_dl_total_size, downloaded_packages,
             total_download_size, ncb, cb, file_percents>>
optvars == <<options, flags>>
qvars == <<callback_queue, queue, unfinished, last_event, qpc, exit_status, log,
           sent, ntaken, nacked, calls, last_call, trkvars, optvars>>
vars == <<syncdbs, localdb, open, op, pc, pkgs, conflicts, resolved, targets, idx,
          res, trace, result, total_packages_to_download,
          callback_queue, queue, unfinished, last_event, qpc, exit_status, log,
          sent, ntaken, nacked, calls, last_call,
          last_dl_filename, last_dl_progress, last_dl_total_size, downloaded_packages,
          total_download_size, ncb, cb, file_percents, options, flags>>

----------------------------------------------------------------------------
(* Names used by the bounded model. *)

PkgNames == {"p", "q"}
RepoNames == {"core", "antergos"}
\* line 272
one_repo_groups_names == <<"cinnamon", "mate", "mate-extra">>
GroupNames == {"cinnamon", "mate", "mate-extra", "base"}
\* the names a caller asks install for: packages and groups
RequestNames == {"p", "q", "base"}

Range(s) == {s[i] : i \in DOMAIN s}

\* all the lists that hold each element of S once: list(set(...)) gives one of them
Perms(S) == {s \in [1..Cardinality(S) -> S] : \A i, j \in 1..Cardinality(S) : s[i] = s[j] => i = j}

RECURSIVE SetToSeq(_)
SetToSeq(S) == IF S = {} THEN <<>> ELSE LET x == CHOOSE y \in S : TRUE IN <<x>> \o SetToSeq(S \ {x})

NoPkg == [name |-> "-", repo |-> "-"]

\* a repository: its packages and, for each group, the members (none: no such group)
Repo(n, pk, gr) == [name |-> n, pkgs |-> pk, grp |-> gr]

----------------------------------------------------------------------------
(* pyalpm database primitives *)

\* database.get_pkg(name): the package, or None
get_pkg(db, name) == IF name \in db.pkgs THEN [name |-> name, repo |-> db.name] ELSE NoPkg

\* database.read_grp(name): (name, members) or None; a group exists when a package lists it
read_grp(db, g) == IF g \in DOMAIN db.grp /\ db.grp[g] # {} THEN db.grp[g] ELSE {}

\* OrderedDict filled by "repos[syncdb.name] = syncdb" for each database of dbs in turn:
\* a new key goes to the end, a key already present keeps its place and takes the value
RECURSIVE ordered_dict(_, _)
ordered_dict(dbs, acc) ==
    IF dbs = <<>> THEN acc
    ELSE LET d == Head(dbs)
             at == {i \in DOMAIN acc : acc[i].name = d.name}
         IN ordered_dict(Tail(dbs),
                IF at = {} THEN Append(acc, d)
                ELSE [i \in DOMAIN acc |-> IF i \in at THEN d ELSE acc[i]])

\* lines 284-286: repos, keyed by name, in the order of get_syncdbs()
repos_of(dbs) == ordered_dict(dbs, <<>>)

\* lines 267-270: antdb holds the first database called 'antergos'
antdb_of(dbs) ==
    LET m == SelectSeq(dbs, LAMBDA d : d.name = "antergos") IN <<m[1]>>

\* lines 272-282: the packages of the groups cinnamon, mate, mate-extra of antergos
one_repo_pkgs(dbs) ==
    UNION {read_grp(antdb_of(dbs)[1], one_repo_groups_names[i]) :
             i \in DOMAIN one_repo_groups_names}

find_last_package(pkgname, dbseq) ==
    LET hits == {i \in DOMAIN dbseq : get_pkg(dbseq[i], pkgname) # NoPkg}
    IN IF hits = {} THEN [ok |-> FALSE, pkg |-> NoPkg]
       ELSE [ok |-> TRUE,
             pkg |-> get_pkg(dbseq[CHOOSE i \in hits : \A j \in hits : j <= i], pkgname)]

\* lines 386-395: the first database of syncdbs.values() that holds pkgname
RECURSIVE find_sync_package(_, _)
find_sync_package(pkgname, dbseq) ==
    IF dbseq = <<>> THEN [ok |-> FALSE, pkg |-> NoPkg]
    ELSE LET pkg == get_pkg(Head(dbseq), pkgname)
         IN IF pkg # NoPkg THEN [ok |-> TRUE, pkg |-> pkg]
            ELSE find_sync_package(pkgname, Tail(dbseq))

get_group_pkgs_last(group, dbs) ==
    LET has == {i \in DOMAIN dbs : read_grp(dbs[i], group) # {}}
    IN IF has = {} THEN {}
       ELSE read_grp(dbs[CHOOSE i \in has : \A j \in has : j <= i], group)

\* lines 397-404: the members of the first repository that has the group, {} for None
RECURSIVE get_group_pkgs(_, _)
get_group_pkgs(group, dbs) ==
    IF dbs = <<>> THEN {}
    ELSE LET grp == read_grp(Head(dbs), group)
         IN IF grp # {} THEN grp ELSE get_group_pkgs(group, Tail(dbs))

group_targets_unchecked(members, confl) == SetToSeq(members)

\* lines 307-312: the members of a group that are not in the conflict list
group_targets(members, confl) ==
    SelectSeq(SetToSeq(members), LAMBDA n : n \notin confl)

\* lines 290-318: what one requested name appends to targets
name_targets(name, confl, dbs) ==
    LET use == IF name \in one_repo_pkgs(dbs) THEN antdb_of(dbs) ELSE repos_of(dbs)
        r == find_sync_package(name, use)
    IN IF r.ok
       THEN (IF r.pkg.name \notin confl THEN <<r.pkg.name>> ELSE <<>>)
       ELSE group_targets(get_group_pkgs(name, dbs), confl)

RECURSIVE install_targets_until_unknown(_, _, _)
install_targets_until_unknown(names, confl, dbs) ==
    IF names = <<>> THEN <<>>
    ELSE LET t == name_targets(Head(names), confl, dbs)
         IN IF t = <<>> THEN <<>>
            ELSE t \o install_targets_until_unknown(Tail(names), confl, dbs)

\* lines 288-318: the list targets after the loop over pkgs
RECURSIVE install_targets(_, _, _)
install_targets(names, confl, dbs) ==
    IF names = <<>> THEN <<>>
    ELSE name_targets(Head(names), confl, dbs) \o install_targets(Tail(names), confl, dbs)

keep_duplicates(lst) == {lst}

\* lines 261, 321, 365: list(set(lst)), the distinct elements in an order Python picks
discard_duplicates(lst) == Perms(Range(lst))

----------------------------------------------------------------------------
(* The transaction *)

Call(c, ok, arg) == [call |-> c, ok |-> ok, arg |-> arg]

\* pyalpm: handle.init_transaction raises when the handle already holds a transaction
EngineInit == {ok \in BOOLEAN : open > 0 => ~ok}

finalize_commits_anyway(tr, prepareOk, commitOk) ==
    [trace |-> tr \o <<Call("prepare", prepareOk, NoPkg), Call("commit", commitOk, NoPkg),
                       Call("release", TRUE, NoPkg)>>,
     released |-> 1,
     result |-> IF prepareOk /\ commitOk THEN "True" ELSE "False",
     committed |-> commitOk]

finalize_no_release_on_error(tr, prepareOk, commitOk) ==
    IF ~prepareOk THEN [trace |-> Append(tr, Call("prepare", FALSE, NoPkg)),
                        released |-> 0, result |-> "False", committed |-> FALSE]
    ELSE IF ~commitOk
    THEN [trace |-> tr \o <<Call("prepare", TRUE, NoPkg), Call("commit", FALSE, NoPkg)>>,
          released |-> 0, result |-> "False", committed |-> FALSE]
    ELSE [trace |-> tr \o <<Call("prepare", TRUE, NoPkg), Call("commit", TRUE, NoPkg),
                            Call("release", TRUE, NoPkg)>>,
          released |-> 1, result |-> "True", committed |-> TRUE]

\* lines 153-168: prepare, commit, release; the engine decides prepareOk and commitOk
finalize_transaction(tr, prepareOk, commitOk) ==
    IF ~prepareOk
    THEN [trace |-> tr \o <<Call("prepare", FALSE, NoPkg), Call("release", TRUE, NoPkg)>>,
          released |-> 1, result |-> "False", committed |-> FALSE]
    ELSE IF ~commitOk
    THEN [trace |-> tr \o <<Call("prepare", TRUE, NoPkg), Call("commit", FALSE, NoPkg),
                            Call("release", TRUE, NoPkg)>>,
          released |-> 1, result |-> "False", committed |-> FALSE]
    ELSE [trace |-> tr \o <<Call("prepare", TRUE, NoPkg), Call("commit", TRUE, NoPkg),
                            Call("release", TRUE, NoPkg)>>,
          released |-> 1, result |-> "True", committed |-> TRUE]

init_transaction_unchecked(tr, engineOk) ==
    [trace |-> Append(tr, Call("init", engineOk, NoPkg)), transaction |-> TRUE]

\* lines 170-195: the handle, or None when the engine raises (the error is logged)
init_transaction(tr, engineOk) ==
    [trace |-> Append(tr, Call("init", engineOk, NoPkg)), transaction |-> engineOk]

\* longest list of names a caller passes
MaxReq == 2

\* the requests of the bounded model: lists of at most MaxReq names
ListsOf(S) == UNION {[1..n -> S] : n \in 0..MaxReq}

Pop(lst) == SubSeq(lst, 1, Len(lst) - 1)

\* what a successful commit does to the local database
Committed(tr) ==
    LET added == {tr[i].arg.name : i \in {j \in DOMAIN tr : tr[j].call = "add_pkg" /\ tr[j].ok}}
        removed == {tr[i].arg.name : i \in {j \in DOMAIN tr : tr[j].call = "remove_pkg" /\ tr[j].ok}}
    IN (localdb \cup added) \ removed

\* the call ends: result is what the caller gets
Ends(r) == pc' = "done" /\ result' = r

\* lines 243-339 of install: checks, resolution, init_transaction
InstallStart(pkgs_in, confl) ==
    /\ pc = "idle"
    /\ op' = "install"
    /\ conflicts' = confl
    /\ UNCHANGED <<syncdbs, localdb, idx, res>>
    /\ IF pkgs_in = <<>>
       THEN /\ Ends("raise")
            /\ UNCHANGED <<open, pkgs, resolved, targets, trace, total_packages_to_download>>
       ELSE \E dd \in discard_duplicates(pkgs_in) :
            \E tg \in discard_duplicates(install_targets(dd, confl, syncdbs)) :
              /\ pkgs' = dd
              /\ resolved' = tg
              /\ IF tg = <<>>
                 THEN /\ Ends("False")
                      /\ UNCHANGED <<open, targets, trace, total_packages_to_download>>
                 ELSE /\ total_packages_to_download' = Len(tg)
                      /\ \E engineOk \in EngineInit :
                           LET t == init_transaction(<<>>, engineOk)
                           IN /\ trace' = t.trace
                              /\ IF t.transaction
                                 THEN /\ open' = open + 1
                                      /\ targets' = tg
                                      /\ pc' = "add"
                                      /\ UNCHANGED result
                                 ELSE /\ Ends("False")
                                      /\ UNCHANGED <<open, targets>>

\* lines 341-346 of install: one turn of the loop, add_pkg may raise
InstallAdd ==
    /\ pc = "add" /\ op = "install"
    /\ UNCHANGED <<syncdbs, localdb, open, op, pkgs, conflicts, resolved, idx, res,
                   total_packages_to_download>>
    /\ LET r == find_sync_package(targets[Len(targets)], repos_of(syncdbs))
       IN /\ targets' = Pop(targets)
          /\ IF r.ok
             THEN \E engineOk \in BOOLEAN :
                    /\ trace' = Append(trace, Call("add_pkg", engineOk, r.pkg))
                    /\ IF ~engineOk THEN Ends("raise")
                       ELSE /\ pc' = IF targets' = <<>> THEN "finalize" ELSE "add"
                            /\ UNCHANGED result
             ELSE /\ pc' = IF targets' = <<>> THEN "finalize" ELSE "add"
                  /\ UNCHANGED <<trace, result>>

\* lines 350-379 of upgrade: load every tarball, then init_transaction
UpgradeStart(pkgs_in) ==
    /\ pc = "idle"
    /\ op' = "upgrade"
    /\ UNCHANGED <<syncdbs, localdb, conflicts, resolved, idx, res,
                   total_packages_to_download>>
    /\ IF pkgs_in = <<>>
       THEN Ends("raise") /\ UNCHANGED <<open, pkgs, targets, trace>>
       ELSE \E dd \in discard_duplicates(pkgs_in) :
            \E loadOk \in BOOLEAN :
              /\ pkgs' = dd
              /\ IF ~loadOk
                 THEN Ends("raise") /\ UNCHANGED <<open, targets, trace>>
                 ELSE \E engineOk \in EngineInit :
                        LET t == init_transaction(<<>>, engineOk)
                        IN /\ trace' = t.trace
                           /\ IF t.transaction
                              THEN /\ open' = open + 1
                                   /\ targets' = dd
                                   /\ pc' = "add"
                                   /\ UNCHANGED result
                              ELSE /\ Ends("False")
                                   /\ UNCHANGED <<open, targets>>

\* lines 381-382 of upgrade: one turn of the loop
UpgradeAdd ==
    /\ pc = "add" /\ op = "upgrade"
    /\ UNCHANGED <<syncdbs, localdb, open, op, pkgs, conflicts, resolved, idx, res,
                   total_packages_to_download>>
    /\ targets' = Tail(targets)
    /\ \E engineOk \in BOOLEAN :
         /\ trace' = Append(trace, Call("add_pkg", engineOk,
                                        [name |-> Head(targets), repo |-> "tarball"]))
         /\ IF ~engineOk THEN Ends("raise")
            ELSE /\ pc' = IF targets' = <<>> THEN "finalize" ELSE "add"
                 /\ UNCHANGED result

remove_targets_found(pkg_names, db) ==
    [ok |-> TRUE, targets |-> SelectSeq(pkg_names, LAMBDA n : n \in db)]

\* lines 204-211 of remove: every name is looked up in the local database, a name
\* that is not installed ends the call
remove_targets(pkg_names, db) ==
    IF \E i \in DOMAIN pkg_names : pkg_names[i] \notin db
    THEN [ok |-> FALSE, targets |-> <<>>]
    ELSE [ok |-> TRUE, targets |-> pkg_names]

\* lines 197-217 of remove: look the names up in the local database, then init_transaction
RemoveStart(pkg_names) ==
    /\ pc = "idle"
    /\ op' = "remove"
    /\ pkgs' = pkg_names
    /\ UNCHANGED <<syncdbs, localdb, conflicts, resolved, idx, res,
                   total_packages_to_download>>
    /\ IF ~remove_targets(pkg_names, localdb).ok
       THEN Ends("False") /\ UNCHANGED <<open, targets, trace>>
       ELSE \E engineOk \in EngineInit :
              LET t == init_transaction(<<>>, engineOk)
              IN /\ trace' = t.trace
                 /\ IF t.transaction
                    THEN /\ open' = open + 1
                         /\ targets' = remove_targets(pkg_names, localdb).targets
                         /\ pc' = IF pkg_names = <<>> THEN "finalize" ELSE "add"
                         /\ UNCHANGED result
                    ELSE /\ Ends("False")
                         /\ UNCHANGED <<open, targets>>

\* lines 219-222 of remove: one turn of the loop
RemoveAdd ==
    /\ pc = "add" /\ op = "remove"
    /\ UNCHANGED <<syncdbs, localdb, open, op, pkgs, conflicts, resolved, idx, res,
                   total_packages_to_download>>
    /\ targets' = Tail(targets)
    /\ \E engineOk \in BOOLEAN :
         /\ trace' = Append(trace, Call("remove_pkg", engineOk,
                                        [name |-> Head(targets), repo |-> "local"]))
         /\ IF ~engineOk THEN Ends("raise")
            ELSE /\ pc' = IF targets' = <<>> THEN "finalize" ELSE "add"
                 /\ UNCHANGED result

\* lines 224, 348, 384: return self.finalize_transaction(transaction)
Finalize ==
    /\ pc = "finalize"
    /\ UNCHANGED <<syncdbs, op, pkgs, conflicts, resolved, targets, idx, res,
                   total_packages_to_download>>
    /\ \E prepareOk, commitOk \in BOOLEAN :
         LET f == finalize_transaction(trace, prepareOk, commitOk)
         IN /\ trace' = f.trace
            /\ open' = open - f.released
            /\ localdb' = IF f.committed THEN Committed(trace) ELSE localdb
            /\ Ends(f.result)

\* lines 226-233 of refresh
RefreshStart ==
    /\ pc = "idle"
    /\ op' = "refresh"
    /\ res' = TRUE
    /\ idx' = 1
    /\ pc' = "refresh"
    /\ UNCHANGED <<syncdbs, localdb, open, pkgs, conflicts, resolved, targets, trace, result,
                   total_packages_to_download>>

refresh_res_of_last(r, transaction) == transaction

\* lines 236-240: res after one repository
refresh_res(r, transaction) == IF transaction THEN r ELSE FALSE

\* lines 234-241 of refresh: one turn of the loop, and the return after the last one
RefreshStep ==
    /\ pc = "refresh"
    /\ UNCHANGED <<syncdbs, localdb, op, pkgs, conflicts, resolved, targets,
                   total_packages_to_download>>
    /\ idx' = idx + 1
    /\ \E engineOk \in EngineInit, updateOk \in BOOLEAN :
         LET t == init_transaction(trace, engineOk)
             db == [name |-> "-", repo |-> syncdbs[idx].name]
         IN /\ res' = refresh_res(res, t.transaction)
            /\ IF t.transaction
               THEN IF updateOk
                    THEN /\ trace' = t.trace \o <<Call("update", TRUE, db),
                                                  Call("release", TRUE, NoPkg)>>
                         /\ UNCHANGED open
                         /\ IF idx = Len(syncdbs) THEN Ends(IF res' THEN "True" ELSE "False")
                            ELSE UNCHANGED <<pc, result>>
                    ELSE /\ trace' = Append(t.trace, Call("update", FALSE, db))
                         /\ open' = open + 1
                         /\ Ends("raise")
               ELSE /\ trace' = t.trace
                    /\ UNCHANGED open
                    /\ IF idx = Len(syncdbs) THEN Ends(IF res' THEN "True" ELSE "False")
                       ELSE UNCHANGED <<pc, result>>

\* the caller has the result; the locals of the call are gone
Return ==
    /\ pc = "done"
    /\ pc' = "idle"
    /\ op' = "none" /\ pkgs' = <<>> /\ conflicts' = {} /\ resolved' = <<>> /\ targets' = <<>>
    /\ idx' = 0 /\ res' = TRUE /\ trace' = <<>> /\ result' = "none"
    /\ UNCHANGED <<syncdbs, localdb, open, total_packages_to_download>>

----------------------------------------------------------------------------
(* The repositories the model starts from *)

\* the groups a package of a repository may list in the bounded model
MemberGroups(repo, n) ==
    IF repo = "antergos" THEN (IF n = "p" THEN {"mate", "base"} ELSE {"base"})
    ELSE (IF n = "p" THEN {} ELSE {"base"})

\* a package is absent from the repository, or present and member of some groups
Contents(repo) ==
    {c \in [PkgNames -> {<<FALSE, {}>>} \cup {<<TRUE, g>> : g \in SUBSET {"mate", "base"}}] :
        \A n \in PkgNames : c[n][2] \subseteq MemberGroups(repo, n)}

MakeRepo(repo, c) ==
    LET pk == {n \in PkgNames : c[n][1]}
    IN Repo(repo, pk, [g \in GroupNames |-> {n \in pk : g \in c[n][2]}])

Worlds ==
    {<<MakeRepo(o[1], c1), MakeRepo(o[2], c2)>> :
        o \in Perms(RepoNames), c1 \in Contents("core"), c2 \in Contents("antergos")}

\* before any call of handle.init_transaction
NoFlags == [alldeps |-> FALSE, allexplicit |-> FALSE, recurse |-> FALSE, recurseall |-> FALSE,
            cascade |-> FALSE, nosave |-> FALSE]

\* None, where a file name is expected
NoFile == [stem |-> "None", ext |-> ""]

NoCallback == [name |-> "none", filename |-> NoFile, transfer |-> 0, total |-> 0, emits |-> <<>>]

\* lines 82-94: the tracker after __init__
InitTracker ==
    /\ last_dl_filename = NoFile
    /\ last_dl_progress = <<0, 1>>
    /\ last_dl_total_size = 0
    /\ downloaded_packages = 0
    /\ total_download_size = 0
    /\ ncb = 0 /\ cb = NoCallback /\ file_percents = <<>>
    /\ options = <<>> /\ flags = NoFlags

InitQueueIdle ==
    /\ InitTracker
    /\ callback_queue = FALSE /\ queue = <<>> /\ unfinished = 0
    /\ last_event = <<>> /\ qpc = "run" /\ exit_status = -1 /\ log = <<>>
    /\ sent = <<>> /\ ntaken = 0 /\ nacked = 0 /\ calls = 0
    /\ last_call = [kind |-> "none", text |-> "", outcome |-> "none"]

InitTxn ==
    /\ syncdbs \in Worlds
    /\ localdb \in SUBSET PkgNames
    /\ open = 0
    /\ op = "none" /\ pc = "idle" /\ pkgs = <<>> /\ conflicts = {} /\ resolved = <<>> /\ targets = <<>>
    /\ idx = 0 /\ res = TRUE /\ trace = <<>> /\ result = "none"
    /\ total_packages_to_download = 0
    /\ InitQueueIdle

NextTxn ==
    \/ \E pkgs_in \in ListsOf(RequestNames), confl \in SUBSET PkgNames :
          InstallStart(pkgs_in, confl) /\ UNCHANGED qvars
    \/ InstallAdd /\ UNCHANGED qvars
    \/ \E pkgs_in \in ListsOf(PkgNames) : UpgradeStart(pkgs_in) /\ UNCHANGED qvars
    \/ UpgradeAdd /\ UNCHANGED qvars
    \/ \E pkg_names \in ListsOf(PkgNames) : RemoveStart(pkg_names) /\ UNCHANGED qvars
    \/ RemoveAdd /\ UNCHANGED qvars
    \/ Finalize /\ UNCHANGED qvars
    \/ RefreshStart /\ UNCHANGED qvars
    \/ RefreshStep /\ UNCHANGED qvars
    \/ Return /\ UNCHANGED qvars

SpecTxn == InitTxn /\ [][NextTxn]_vars

----------------------------------------------------------------------------
(* The event channel: queue_event, the queue and its consumer *)

\* capacity of callback_queue
QueueCap == 2
\* number of queue_event calls in a behaviour
MaxCalls == 4

Kinds == {"info", "percent", "error"}

\* the texts and values callers pass; a percent value is a fraction <<n, d>> = n/d
\* whose float is exact (d a power of two), so that ties round as Python rounds them
Payloads(kind) ==
    IF kind = "percent" THEN {<<0, 1>>, <<1, 8>>, <<1, 2>>, <<1, 1>>}
    ELSE IF kind = "info" THEN {"Checking dependencies...", "Checking integrity..."}
    ELSE {"Can't install"}

\* line 451: "{0:.2f}".format(v), as the number of hundredths it prints; the exact
\* value is rounded to the nearest hundredth, a tie to the even one
Fmt2(v) ==
    LET n == 100 * v[1]
        q == n \div v[2]
        r == n % v[2]
    IN IF 2 * r < v[2] THEN q
       ELSE IF 2 * r > v[2] THEN q + 1
       ELSE IF q % 2 = 0 THEN q ELSE q + 1

\* lines 465-471: the error text with the caller's function, file and line
ErrText(text) == <<text, "co_name", "co_filename", "co_firstlineno">>

Logged(qs, level, text) == Append(qs.log, [level |-> level, text |-> text])

put_forced(qs, ev) ==
    [qs EXCEPT !.queue = Append(@, ev), !.unfinished = @ + 1, !.sent = Append(@, ev),
               !.outcome = "enqueued"]

\* lines 480-483: put_nowait, queue.Full is caught and a warning is logged
put_nowait(qs, ev) ==
    IF Len(qs.queue) < QueueCap
    THEN [qs EXCEPT !.queue = Append(@, ev), !.unfinished = @ + 1, !.sent = Append(@, ev),
                    !.outcome = "enqueued"]
    ELSE [qs EXCEPT !.log = Logged(qs, "warning", "Callback queue is full"),
                    !.outcome = "dropped"]

no_queue_logs_only(qs, event_type, event_text) ==
    [qs EXCEPT !.log = Logged(qs, "debug", event_text), !.outcome = "logged"]

\* lines 473-478: no consumer, an error is logged and ends the process
no_queue(qs, event_type, event_text) ==
    IF event_type = "error"
    THEN [qs EXCEPT !.log = Logged(qs, "error", event_text), !.qpc = "exited",
                    !.exit_status = 1, !.outcome = "exit"]
    ELSE [qs EXCEPT !.log = Logged(qs, "debug", event_text), !.outcome = "logged"]

always_waits(event_type) == TRUE

\* line 485: only an error waits for the consumer
waits_for_consumer(event_type) == event_type = "error"

\* lines 446-490 up to the call of join: qs holds the fields the call reads and writes
queue_event(qs, event_type, payload) ==
    LET event_text == IF event_type = "percent" THEN Fmt2(payload) ELSE payload
    IN IF event_type \in DOMAIN qs.last_event /\ qs.last_event[event_type] = event_text
       THEN [qs EXCEPT !.outcome = "suppressed"]
       ELSE LET q1 == [qs EXCEPT !.last_event = (event_type :> event_text) @@ @]
                text == IF event_type = "error" THEN ErrText(event_text) ELSE event_text
            IN IF ~callback_queue
               THEN no_queue(q1, event_type, text)
               ELSE LET q2 == put_nowait(q1, [kind |-> event_type, text |-> text])
                    IN IF waits_for_consumer(event_type) THEN [q2 EXCEPT !.qpc = "join"]
                       ELSE q2

join_when_empty(q, unfinished_tasks) == q = <<>>

\* line 489: callback_queue.join() returns when every event put has been acknowledged
join_returns(q, unfinished_tasks) == unfinished_tasks = 0

QState ==
    [last_event |-> last_event, queue |-> queue, unfinished |-> unfinished, sent |-> sent,
     log |-> log, qpc |-> qpc, exit_status |-> exit_status, outcome |-> "none"]

SetQState(qs) ==
    /\ last_event' = qs.last_event /\ queue' = qs.queue /\ unfinished' = qs.unfinished
    /\ sent' = qs.sent /\ log' = qs.log /\ qpc' = qs.qpc /\ exit_status' = qs.exit_status

\* a call of queue_event by the installer process
QueueEventCall(event_type, payload) ==
    /\ qpc = "run"
    /\ calls < MaxCalls
    /\ calls' = calls + 1
    /\ LET qs == queue_event(QState, event_type, payload)
       IN /\ SetQState(qs)
          /\ last_call' = [kind |-> event_type, text |-> payload, outcome |-> qs.outcome]
    /\ UNCHANGED <<callback_queue, ntaken, nacked, trkvars, optvars>>

\* lines 489-490: join() returns, sys.exit(1)
Join ==
    /\ qpc = "join"
    /\ join_returns(queue, unfinished)
    /\ qpc' = "exited"
    /\ exit_status' = 1
    /\ UNCHANGED <<callback_queue, queue, unfinished, last_event, log, sent, ntaken,
                   nacked, calls, last_call, trkvars, optvars>>

\* the GUI thread takes the oldest event
ConsumerGet ==
    /\ callback_queue
    /\ queue # <<>>
    /\ queue' = Tail(queue)
    /\ ntaken' = ntaken + 1
    /\ UNCHANGED <<callback_queue, unfinished, last_event, qpc, exit_status, log, sent,
                   nacked, calls, last_call, trkvars, optvars>>

\* the GUI thread acknowledges an event it took (task_done)
ConsumerTaskDone ==
    /\ callback_queue
    /\ nacked < ntaken
    /\ nacked' = nacked + 1
    /\ unfinished' = unfinished - 1
    /\ UNCHANGED <<callback_queue, queue, last_event, qpc, exit_status, log, sent,
                   ntaken, calls, last_call, trkvars, optvars>>

InitQ ==
    /\ syncdbs = <<MakeRepo("core", [n \in PkgNames |-> <<TRUE, {}>>]),
                   MakeRepo("antergos", [n \in PkgNames |-> <<TRUE, {}>>])>>
    /\ localdb = {}
    /\ open = 0
    /\ op = "none" /\ pc = "idle" /\ pkgs = <<>> /\ conflicts = {} /\ resolved = <<>>
    /\ targets = <<>> /\ idx = 0 /\ res = TRUE /\ trace = <<>> /\ result = "none"
    /\ total_packages_to_download = 0
    /\ callback_queue \in BOOLEAN
    /\ queue = <<>> /\ unfinished = 0
    /\ last_event = <<>> /\ qpc = "run" /\ exit_status = -1 /\ log = <<>>
    /\ sent = <<>> /\ ntaken = 0 /\ nacked = 0 /\ calls = 0
    /\ last_call = [kind |-> "none", text |-> "", outcome |-> "none"]
    /\ InitTracker

NextQ ==
    \/ \E event_type \in Kinds : \E payload \in Payloads(event_type) :
          QueueEventCall(event_type, payload) /\ UNCHANGED txnvars
    \/ Join /\ UNCHANGED txnvars
    \/ ConsumerGet /\ UNCHANGED txnvars
    \/ ConsumerTaskDone /\ UNCHANGED txnvars

SpecQ == InitQ /\ [][NextQ]_vars

\* the installer process runs, and the GUI thread keeps taking and acknowledging
FairSpecQ ==
    /\ InitQ /\ [][NextQ]_vars
    /\ WF_vars(Join /\ UNCHANGED txnvars)
    /\ WF_vars(ConsumerGet /\ UNCHANGED txnvars)
    /\ WF_vars(ConsumerTaskDone /\ UNCHANGED txnvars)

----------------------------------------------------------------------------
(* The engine callbacks: cb_totaldl, cb_dl, cb_progress *)

\* number of engine callbacks in a behaviour
MaxCb == 3

\* file names as the engine reports them, split into stem and suffix
Filenames == {[stem |-> "core", ext |-> ".db"], [stem |-> "pkg-1.0", ext |-> ".pkg.tar.xz"]}

\* str.endswith
endswith(filename, ext) == filename.ext = ext

\* lines 589, 595: filename[:-len(ext)] of a name that ends with ext
strip(filename) == [filename EXCEPT !.ext = ""]

\* the text of an info event: the format, the name put in it, and two numbers
InfoText(fmt, name, a, b) == <<fmt, name.stem, name.ext, a, b>>

\* a < b for fractions <<n, d>> with d > 0
Less(a, b) == a[1] * b[2] < b[1] * a[2]

\* line 609: (math.log(1 + transfer / 1024) ** 2 / 2) / 100 in ten-thousandths,
\* rounded down, at the byte counts of the model
LogHeuristic(transfer) ==
    LET tenthousandths == (0 :> 0) @@ (1048576 :> 2402) @@ (2147483647 :> 10593)
    IN <<tenthousandths[transfer], 10000>>

\* the arguments (transfer, total) of cb_dl: a file of 8 bytes, and a file whose
\* size the engine does not know (total 0)
DlArgs ==
    {<<0, 8>>, <<4, 8>>, <<8, 8>>, <<0, 0>>, <<1048576, 0>>, <<2147483647, 0>>}

Tracker ==
    [last_dl_filename |-> last_dl_filename, last_dl_progress |-> last_dl_progress,
     last_dl_total_size |-> last_dl_total_size, downloaded_packages |-> downloaded_packages,
     total_download_size |-> total_download_size, file_percents |-> file_percents]

\* the state a callback works on: the channel, the tracker, and the queue_event
\* calls the callback has made
CbState == [qs |-> QState, trk |-> Tracker, emits |-> <<>>]

\* a call of self.queue_event from a callback
Emit(st, event_type, payload) ==
    [st EXCEPT !.qs = queue_event(@, event_type, payload),
               !.emits = Append(@, [kind |-> event_type, payload |-> payload])]

\* lines 499-501
cb_totaldl(st, total_size) == [st EXCEPT !.trk.total_download_size = total_size]

\* line 580
is_new_file(trk, filename, total) ==
    filename # trk.last_dl_filename \/ trk.last_dl_total_size # total

\* lines 586-599: the label of a new file and whether it counts as a package
dl_label(trk, filename) ==
    IF trk.total_download_size = 0
    THEN [text |-> InfoText("Updating {0} database",
                            IF endswith(filename, ".db") THEN strip(filename) ELSE filename,
                            0, 0),
          counts |-> 0]
    ELSE [text |-> InfoText("Downloading {0}...",
                            IF endswith(filename, ".pkg.tar.xz") THEN strip(filename)
                            ELSE filename,
                            0, 0),
          counts |-> 1]

\* lines 604-609
dl_progress(trk, transfer) ==
    IF trk.last_dl_total_size > 0 THEN <<transfer, trk.last_dl_total_size>>
    ELSE LogHeuristic(transfer)

not_shrunk(progress, last) == ~Less(progress, last)

\* line 611
has_grown(progress, last) == Less(last, progress)

\* lines 577-614
cb_dl(st, filename, transfer, total) ==
    IF is_new_file(st.trk, filename, total)
    THEN LET lbl == dl_label(st.trk, filename)
             s1 == [st EXCEPT !.trk.last_dl_filename = filename,
                              !.trk.last_dl_total_size = total,
                              !.trk.last_dl_progress = <<0, 1>>,
                              !.trk.downloaded_packages = @ + lbl.counts,
                              !.trk.file_percents = <<<<0, 1>>>>]
         IN Emit(Emit(s1, "info", lbl.text), "percent", <<0, 1>>)
    ELSE LET progress == dl_progress(st.trk, transfer)
         IN IF has_grown(progress, st.trk.last_dl_progress)
            THEN Emit([st EXCEPT !.trk.last_dl_progress = progress,
                                 !.trk.file_percents = Append(@, progress)],
                      "percent", progress)
            ELSE st

\* lines 566-575: total is at least 1 when a target is named
cb_progress(st, target, percent, total, current) ==
    IF target # ""
    THEN Emit(Emit(st, "info",
                   InfoText("Installing {0} ({1}/{2})", [stem |-> target, ext |-> ""],
                            current, total)),
              "percent", <<current, total>>)
    ELSE Emit(st, "percent", <<percent, 100>>)

SetCbState(st, name, filename, transfer, total) ==
    /\ SetQState(st.qs)
    /\ last_dl_filename' = st.trk.last_dl_filename
    /\ last_dl_progress' = st.trk.last_dl_progress
    /\ last_dl_total_size' = st.trk.last_dl_total_size
    /\ downloaded_packages' = st.trk.downloaded_packages
    /\ total_download_size' = st.trk.total_download_size
    /\ file_percents' = st.trk.file_percents
    /\ cb' = [name |-> name, filename |-> filename, transfer |-> transfer, total |-> total,
              emits |-> st.emits]
    /\ ncb' = ncb + 1
    /\ UNCHANGED <<callback_queue, ntaken, nacked, calls, last_call, optvars>>

\* the engine reports the size of all the downloads of the transaction
CbTotalDl(total_size) ==
    /\ qpc = "run" /\ ncb < MaxCb
    /\ SetCbState(cb_totaldl(CbState, total_size), "cb_totaldl", NoFile, 0, total_size)

\* the engine reports the bytes of a file received so far
CbDl(filename, transfer, total) ==
    /\ qpc = "run" /\ ncb < MaxCb
    /\ SetCbState(cb_dl(CbState, filename, transfer, total), "cb_dl", filename, transfer, total)

\* the engine reports the progress of an install step
CbProgress(target, percent, total, current) ==
    /\ qpc = "run" /\ ncb < MaxCb
    /\ SetCbState(cb_progress(CbState, target, percent, total, current), "cb_progress",
                  NoFile, current, total)

InitCb ==
    /\ syncdbs = <<MakeRepo("core", [n \in PkgNames |-> <<TRUE, {}>>]),
                   MakeRepo("antergos", [n \in PkgNames |-> <<TRUE, {}>>])>>
    /\ localdb = {}
    /\ open = 0
    /\ op = "none" /\ pc = "idle" /\ pkgs = <<>> /\ conflicts = {} /\ resolved = <<>>
    /\ targets = <<>> /\ idx = 0 /\ res = TRUE /\ trace = <<>> /\ result = "none"
    /\ total_packages_to_download = 0
    /\ callback_queue = TRUE
    /\ queue = <<>> /\ unfinished = 0
    /\ last_event = <<>> /\ qpc = "run" /\ exit_status = -1 /\ log = <<>>
    /\ sent = <<>> /\ ntaken = 0 /\ nacked = 0 /\ calls = 0
    /\ last_call = [kind |-> "none", text |-> "", outcome |-> "none"]
    /\ InitTracker

NextCb ==
    \/ \E total_size \in {0, 8} : CbTotalDl(total_size) /\ UNCHANGED txnvars
    \/ \E filename \in Filenames, a \in DlArgs :
          CbDl(filename, a[1], a[2]) /\ UNCHANGED txnvars
    \/ \E target \in {"", "p"}, percent \in {0, 50, 100}, total \in 1..2, current \in 1..2 :
          /\ target = "" => total = 1 /\ current = 1
          /\ target # "" => percent = 0 /\ current <= total
          /\ CbProgress(target, percent, total, current) /\ UNCHANGED txnvars
    \/ ConsumerGet /\ UNCHANGED txnvars
    \/ ConsumerTaskDone /\ UNCHANGED txnvars

SpecCb == InitCb /\ [][NextCb]_vars

----------------------------------------------------------------------------
(* The options of init_transaction *)

\* pyalpm.PKG_REASON_EXPLICIT, pyalpm.PKG_REASON_DEPEND
PKG_REASON_EXPLICIT == 0
PKG_REASON_DEPEND == 1

\* largest value of options['recursive'] a caller passes
MaxRecursive == 3

\* an option left out, or given one of the values
OptionParts(key, values) == {<<>>} \cup {key :> v : v \in values}

\* the options dictionaries of the bounded model
Options ==
    {m @@ r @@ c @@ n :
        m \in OptionParts("mode", {PKG_REASON_EXPLICIT, PKG_REASON_DEPEND}),
        r \in OptionParts("recursive", (-1)..MaxRecursive),
        c \in OptionParts("cascade", BOOLEAN),
        n \in OptionParts("nosave", BOOLEAN)}

\* dict.get(key, default)
get(opts, key, default) == IF key \in DOMAIN opts THEN opts[key] ELSE default

\* options.get('mode', None) == reason: None equals no reason
mode_is(opts, reason) == "mode" \in DOMAIN opts /\ opts["mode"] = reason

init_flags_recurseall_early(opts) ==
    [alldeps |-> mode_is(opts, PKG_REASON_DEPEND),
     allexplicit |-> mode_is(opts, PKG_REASON_EXPLICIT),
     recurse |-> get(opts, "recursive", 0) > 0,
     recurseall |-> get(opts, "recursive", 0) > 0,
     cascade |-> get(opts, "cascade", FALSE),
     nosave |-> get(opts, "nosave", FALSE)]

\* lines 178-192: the flags handed to handle.init_transaction
init_flags(opts) ==
    [alldeps |-> mode_is(opts, PKG_REASON_DEPEND),
     allexplicit |-> mode_is(opts, PKG_REASON_EXPLICIT),
     recurse |-> get(opts, "recursive", 0) > 0,
     recurseall |-> get(opts, "recursive", 0) > 1,
     cascade |-> get(opts, "cascade", FALSE),
     nosave |-> get(opts, "nosave", FALSE)]

\* lines 170-195: a call of init_transaction(options); the engine gives a handle or raises
InitTransactionCall(opts) ==
    /\ pc = "idle"
    /\ options' = opts
    /\ flags' = init_flags(opts)
    /\ \E engineOk \in EngineInit :
         open' = IF init_transaction(trace, engineOk).transaction THEN open + 1 ELSE open
    /\ UNCHANGED <<syncdbs, localdb, op, pc, pkgs, conflicts, resolved, targets, idx, res,
                   trace, result, total_packages_to_download>>

\* line 238: the caller releases the handle it was given
ReleaseCall ==
    /\ pc = "idle"
    /\ open > 0
    /\ open' = open - 1
    /\ UNCHANGED <<syncdbs, localdb, op, pc, pkgs, conflicts, resolved, targets, idx, res,
                   trace, result, total_packages_to_download, options, flags>>

otherqvars == <<callback_queue, queue, unfinished, last_event, qpc, exit_status, log,
                sent, ntaken, nacked, calls, last_call, trkvars>>

InitOpt ==
    /\ syncdbs = <<MakeRepo("core", [n \in PkgNames |-> <<TRUE, {}>>]),
                   MakeRepo("antergos", [n \in PkgNames |-> <<TRUE, {}>>])>>
    /\ localdb = {}
    /\ open = 0
    /\ op = "none" /\ pc = "idle" /\ pkgs = <<>> /\ conflicts = {} /\ resolved = <<>>
    /\ targets = <<>> /\ idx = 0 /\ res = TRUE /\ trace = <<>> /\ result = "none"
    /\ total_packages_to_download = 0
    /\ InitQueueIdle

NextOpt ==
    \/ \E opts \in Options : InitTransactionCall(opts) /\ UNCHANGED otherqvars
    \/ ReleaseCall /\ UNCHANGED otherqvars

SpecOpt == InitOpt /\ [][NextOpt]_vars

----------------------------------------------------------------------------
(* Properties of the transaction orchestration *)

Calls(c) == {i \in DOMAIN trace : trace[i].call = c}

\* the positions of syncdbs whose repository holds a package called n
Holders(n) == {i \in DOMAIN syncdbs : n \in syncdbs[i].pkgs}

FirstHolder(n) == CHOOSE i \in Holders(n) : \A j \in Holders(n) : i <= j

\* the call went through finalize_transaction
Finalized == pc = "done" /\ op \in {"install", "upgrade", "remove"} /\ Calls("prepare") # {}

\* C1: a transaction passed to finalize_transaction is released exactly once, whether
\* prepare and commit succeed (result True), prepare raises (result False, no commit)
\* or commit raises (result False).
C1_ReleaseExactlyOnce ==
    Finalized =>
        LET prepareOk == \E i \in Calls("prepare") : trace[i].ok
            commitOk == \E i \in Calls("commit") : trace[i].ok
        IN /\ Cardinality(Calls("release")) = 1
           /\ Cardinality(Calls("prepare")) = 1
           /\ trace[Len(trace)].call = "release"
           /\ (prepareOk /\ commitOk) => result = "True"
           /\ ~prepareOk => (result = "False" /\ Calls("commit") = {})
           /\ (prepareOk /\ ~commitOk) => (result = "False" /\ Cardinality(Calls("commit")) = 1)
           /\ result \in {"True", "False"}

\* a commit raised, and the transaction was released once
C1_Witness ==
    /\ Finalized
    /\ \E i \in Calls("commit") : ~trace[i].ok
    /\ Cardinality(Calls("release")) = 1
    /\ result = "False"

\* C2: when install, upgrade, remove or refresh ends, by returning or by an engine
\* error, every transaction the call initialised has been released.
C2_NoHandleOutlivesCall ==
    pc = "done" =>
        Cardinality({i \in Calls("init") : trace[i].ok}) = Cardinality(Calls("release"))

\* C3: a package that install adds for a requested name of the exclusive-source set
\* comes from the antergos repository.
C3_ExclusiveFromAntergos ==
    op = "install" =>
        \A i \in Calls("add_pkg") :
            (trace[i].arg.name \in Range(pkgs) /\ trace[i].arg.name \in one_repo_pkgs(syncdbs))
                => trace[i].arg.repo = "antergos"

\* C4: a name outside the exclusive-source set that several repositories hold is taken
\* from the first of them in configured order, by find_sync_package and by install,
\* and the repositories install searches are in the configured order.
C4_FirstMatchWins ==
    /\ [i \in DOMAIN repos_of(syncdbs) |-> repos_of(syncdbs)[i].name]
          = [i \in DOMAIN syncdbs |-> syncdbs[i].name]
    /\ \A n \in PkgNames :
          LET r == find_sync_package(n, repos_of(syncdbs))
          IN /\ r.ok <=> Holders(n) # {}
             /\ r.ok => r.pkg = [name |-> n, repo |-> syncdbs[FirstHolder(n)].name]
    /\ op = "install" =>
          \A i \in Calls("add_pkg") :
             trace[i].arg.name \notin one_repo_pkgs(syncdbs)
                => trace[i].arg.repo = syncdbs[FirstHolder(trace[i].arg.name)].name

\* install added a requested package that two repositories hold, from the first one
C4_Witness ==
    /\ op = "install"
    /\ \E i \in Calls("add_pkg") :
          /\ trace[i].ok
          /\ trace[i].arg.name \in Range(pkgs)
          /\ trace[i].arg.name \notin one_repo_pkgs(syncdbs)
          /\ Cardinality(Holders(trace[i].arg.name)) = 2
          /\ trace[i].arg.repo = syncdbs[1].name

\* C5: the target list install computes holds no name of the conflict list and no
\* name twice, and install adds no package whose name is in the conflict list.
C5_TargetsExcludeConflicts ==
    op = "install" =>
        /\ Range(resolved) \cap conflicts = {}
        /\ Cardinality(Range(resolved)) = Len(resolved)
        /\ \A i \in Calls("add_pkg") : trace[i].arg.name \notin conflicts

\* a conflicting package asked for by name and met again as a member of a requested
\* group, beside a member that is added
C5_Witness ==
    /\ op = "install" /\ pc = "done" /\ result = "True"
    /\ \E n \in conflicts :
          /\ n \in Range(pkgs)
          /\ \E g \in Range(pkgs) : n \in get_group_pkgs(g, syncdbs)
    /\ Calls("add_pkg") # {}

----------------------------------------------------------------------------
(* Properties of the event channel *)

\* the positions of sent that hold an error event
ErrorsSent == {i \in DOMAIN sent : sent[i].kind = "error"}

\* C6: with a consumer attached, the process does not end before the error event
\* itself has been put on the queue and taken by the consumer.
C6_ErrorEventObserved ==
    (callback_queue /\ qpc = "exited") => \E i \in ErrorsSent : i <= ntaken

\* C7: with a consumer attached, the process exits, with status 1, only when the queue
\* is drained: every event put before has been taken and acknowledged.
C7_ExitOnlyWhenDrained ==
    (callback_queue /\ qpc = "exited") =>
        /\ exit_status = 1
        /\ queue = <<>>
        /\ unfinished = 0
        /\ ntaken = Len(sent)
        /\ nacked = Len(sent)

\* the process has exited after events that were waiting when the error was queued
C7_Witness ==
    /\ callback_queue /\ qpc = "exited"
    /\ Len(sent) >= 3
    /\ ErrorsSent = {Len(sent)}
    /\ nacked = Len(sent)

\* C8: with a consumer that keeps taking and acknowledging, an error event queued
\* with a consumer attached leads to the exit of the process with status 1; only an
\* error event makes queue_event wait for the consumer.
C8_BoundedHandOff ==
    /\ [](qpc = "join" => last_call.kind = "error")
    /\ [](qpc # "exited" => exit_status = -1)
    /\ [][(callback_queue /\ calls' = calls + 1 /\ last_call'.kind = "error")
            => qpc' = "join"]_vars
    /\ (callback_queue /\ qpc = "join") ~> (qpc = "exited" /\ exit_status = 1)

\* the process waits in join() while the consumer still holds unacknowledged events
C8_Witness ==
    /\ callback_queue /\ qpc = "join"
    /\ queue # <<>>
    /\ unfinished > Len(queue)

\* C9: without a consumer, an error event ends the process with status 1 after the
\* error text is logged, and the call does not return; no other event ends the process.
C9_NoConsumerErrorExits ==
    ~callback_queue =>
        /\ (last_call.kind = "error") <=> (qpc = "exited")
        /\ qpc \in {"run", "exited"}
        /\ qpc = "exited" =>
              /\ exit_status = 1
              /\ log # <<>>
              /\ log[Len(log)] = [level |-> "error", text |-> ErrText(last_call.text)]
        /\ qpc = "run" => exit_status = -1

\* an error event has ended the process after other events were logged
C9_Witness ==
    /\ ~callback_queue /\ qpc = "exited" /\ exit_status = 1
    /\ calls >= 2
    /\ Len(log) >= 2

\* a call of queue_event for an event that is not an error, made with the queue full
FullQueueCall ==
    /\ callback_queue /\ Len(queue) = QueueCap
    /\ calls' = calls + 1
    /\ last_call'.kind # "error"

\* C10: the queue never holds more than its capacity; a call of queue_event for an
\* event that is not an error, made when the queue is full, leaves the queue as it
\* is, puts nothing, and returns to its caller, which goes on.
C10_LossyEnqueue ==
    /\ [](Len(queue) <= QueueCap)
    /\ [][FullQueueCall =>
            /\ queue' = queue /\ unfinished' = unfinished /\ sent' = sent
            /\ last_call'.outcome \in {"dropped", "suppressed"}
            /\ qpc' = "run" /\ exit_status' = -1]_vars

\* an info or percent event was dropped at a full queue and the process runs on
C10_Witness ==
    /\ callback_queue /\ qpc = "run"
    /\ last_call.kind # "error" /\ last_call.outcome = "dropped"
    /\ Len(queue) = QueueCap

----------------------------------------------------------------------------
(* Duplicate suppression on the event channel *)

\* the events of one kind that were put on the queue, in order
SentOfKind(kind) == SelectSeq(sent, LAMBDA ev : ev.kind = kind)

\* C11: an event whose kind and formatted text equal those of the latest earlier
\* event of its kind is not enqueued, so among the events put on the queue no two
\* consecutive entries of one kind carry the same text (a percent is compared by
\* its two-decimal text).
C11_NoRepeatedEntry ==
    \A kind \in Kinds :
        LET s == SentOfKind(kind)
        IN \A i \in 1..(Len(s) - 1) : s[i].text # s[i + 1].text

----------------------------------------------------------------------------
(* Download progress *)

\* a step that is a call of cb_dl
DlStep == ncb' = ncb + 1 /\ cb'.name = "cb_dl"

\* a call of cb_dl for the file of the call before: same name, same total size
SameFileStep ==
    DlStep /\ cb'.filename = last_dl_filename /\ cb'.total = last_dl_total_size

\* a same-file call that repeats the transfer amount of the cb_dl call before it
RepeatStep == SameFileStep /\ cb.name = "cb_dl" /\ cb'.transfer = cb.transfer

\* the call before was the one that detected the file
AfterDetection == Len(cb.emits) > 0 /\ cb.emits[1].kind = "info"

NonDecreasing(s) == \A i, j \in DOMAIN s : i < j => ~Less(s[j], s[i])

\* the percent values of one file never decrease, and a same-file call reports a
\* percent only when it is above the last one reported for the file
ReportsOnlyGrowth ==
    /\ DlStep => NonDecreasing(file_percents')
    /\ SameFileStep /\ Len(cb'.emits) > 0 =>
          /\ cb'.emits[1].kind = "percent"
          /\ Less(file_percents[Len(file_percents)], cb'.emits[1].payload)

\* C12 as stated: the percent values cb_dl reports for one file never decrease, a
\* same-file call reports a percent only when the progress is strictly above the
\* last reported one, and a call that repeats the previous transfer amount reports
\* nothing.
C12_RepeatedTransferSilent ==
    [][ReportsOnlyGrowth /\ (RepeatStep => Len(cb'.emits) = 0)]_vars

\* C12: the percent values cb_dl reports for one file never decrease, a same-file
\* call reports a percent only when the progress is strictly above the last
\* reported one, and a call that repeats the transfer amount of the call before
\* reports nothing unless that call was the one that detected the file (which
\* reports 0 whatever its transfer amount).
C12_MonotoneProgress ==
    [][ReportsOnlyGrowth /\ (RepeatStep /\ ~AfterDetection => Len(cb'.emits) = 0)]_vars

\* a positive transfer amount was repeated for the same file and nothing was reported
C12_Witness ==
    /\ cb.name = "cb_dl" /\ Len(cb.emits) = 0 /\ cb.transfer > 0
    /\ Len(file_percents) >= 2
    /\ file_percents[Len(file_percents)] = <<cb.transfer, cb.total>>

\* a call of cb_dl that detects a new file: the name or the total size has changed
NewFileStep ==
    DlStep /\ (cb'.filename # last_dl_filename \/ cb'.total # last_dl_total_size)

\* C13: on a new file the kind of the download is read from the suffix of the file
\* name, whatever total_download_size holds: a name ending in .pkg.tar.xz gives the
\* info text "Downloading <name without suffix>..." and one more downloaded
\* package, a name ending in .db gives "Updating <name without suffix> database"
\* and the same count; the label is followed by the percent 0.00.
C13_KindFromSuffix ==
    [][NewFileStep =>
          /\ Len(cb'.emits) = 2
          /\ cb'.emits[1].kind = "info"
          /\ cb'.emits[2].kind = "percent" /\ Fmt2(cb'.emits[2].payload) = 0
          /\ endswith(cb'.filename, ".pkg.tar.xz") =>
                /\ cb'.emits[1].payload =
                      InfoText("Downloading {0}...", strip(cb'.filename), 0, 0)
                /\ downloaded_packages' = downloaded_packages + 1
          /\ endswith(cb'.filename, ".db") =>
                /\ cb'.emits[1].payload =
                      InfoText("Updating {0} database", strip(cb'.filename), 0, 0)
                /\ downloaded_packages' = downloaded_packages]_vars

\* C20: every percent event put on the queue carries a value between 0 and 1,
\* printed with two decimals (here: between 0 and 100 hundredths), when the engine
\* reports current <= total, percent in 0..100 and transfer <= total; for a file of
\* unknown size the logarithmic estimate stays below 1 for every byte count.
C20_PercentInUnitInterval ==
    \A i \in DOMAIN sent : sent[i].kind = "percent" => sent[i].text \in 0..100

----------------------------------------------------------------------------
(* Failure paths of remove and of init_transaction *)

\* the call of remove that starts in this step asks for a name that is not installed
RemoveOfMissing ==
    pc = "idle" /\ op' = "remove" /\ \E i \in DOMAIN pkgs' : pkgs'[i] \notin localdb

\* C14: remove looks the names up in the local database only; when a name is not
\* installed it returns False and has made no engine call (no init, remove_pkg,
\* prepare, commit, release) and the local database is as before; otherwise it
\* initialises one transaction, calls remove_pkg once for each name, in order, and
\* goes to finalize_transaction.
C14_RemoveOnlyInstalled ==
    /\ [](op = "remove" =>
            /\ (pc = "done" /\ trace = <<>>) =>
                  (result = "False" /\ \E i \in DOMAIN pkgs : pkgs[i] \notin localdb)
            /\ trace # <<>> =>
                  /\ Calls("init") = {1}
                  /\ (\A i \in Calls("commit") : ~trace[i].ok) => Range(pkgs) \subseteq localdb
                  /\ \A i \in Calls("remove_pkg") :
                        i - 1 \in DOMAIN pkgs /\ trace[i].arg.name = pkgs[i - 1]
                  /\ (pc = "finalize" \/ Calls("prepare") # {}) =>
                        Calls("remove_pkg") = 2..(Len(pkgs) + 1))
    /\ [][RemoveOfMissing =>
             /\ pc' = "done" /\ result' = "False" /\ trace' = <<>>
             /\ localdb' = localdb /\ open' = open]_vars

\* remove was asked for an installed and for a missing package and gave up
C14_Witness ==
    /\ op = "remove" /\ pc = "done" /\ result = "False" /\ trace = <<>>
    /\ \E i, j \in DOMAIN pkgs : pkgs[i] \in localdb /\ pkgs[j] \notin localdb

\* C15: when the engine fails to initialise a transaction, init_transaction gives
\* no handle and install, upgrade and remove return False at once: the failed init
\* is the last engine call, with no add_pkg, remove_pkg, prepare, commit or release.
C15_InitFailureEndsCall ==
    op \in {"install", "upgrade", "remove"} =>
        \A i \in Calls("init") :
            ~trace[i].ok =>
                /\ i = Len(trace)
                /\ pc = "done" /\ result = "False"
                /\ \A c \in {"add_pkg", "remove_pkg", "prepare", "commit", "release"} :
                      Calls(c) = {}

\* the engine refused a transaction on a handle that had none open
C15_Witness ==
    /\ op \in {"install", "upgrade", "remove"} /\ pc = "done" /\ open = 0
    /\ Calls("init") # {} /\ ~trace[Len(trace)].ok /\ trace[Len(trace)].call = "init"

----------------------------------------------------------------------------
(* Resolution of the names install is asked for *)

\* the requested name is neither a package of the repositories searched for it nor
\* a group of any repository
Unknown(n) == name_targets(n, {}, syncdbs) = <<>>

\* the requested name is a package of the repositories searched for it
IsPackage(n) ==
    find_sync_package(n, IF n \in one_repo_pkgs(syncdbs) THEN antdb_of(syncdbs)
                         ELSE repos_of(syncdbs)).ok

\* C16: install resolves each requested name on its own: a name that is neither a
\* package nor a group is skipped and the other names are still resolved; install
\* returns False at the resolution stage exactly when the target list is empty, and
\* when a requested name is a package outside the conflict list install goes on to
\* init_transaction.
C16_BestEffortResolution ==
    (op = "install" /\ pkgs # <<>>) =>
        /\ Range(resolved) = UNION {Range(name_targets(n, conflicts, syncdbs)) : n \in Range(pkgs)}
        /\ resolved = <<>> <=> (pc = "done" /\ result = "False" /\ trace = <<>>)
        /\ (\E n \in Range(pkgs) : IsPackage(n) /\ n \notin conflicts) =>
              (trace # <<>> /\ trace[1].call = "init")

\* an unknown name came before a name that resolves, and the package was added
C16_Witness ==
    /\ op = "install"
    /\ \E i, j \in DOMAIN pkgs : i < j /\ Unknown(pkgs[i]) /\ IsPackage(pkgs[j])
    /\ \E i \in Calls("add_pkg") : trace[i].ok

\* the call of install that starts in this step resolves its names to no target
InstallOfNothing == pc = "idle" /\ op' = "install" /\ pkgs' # <<>> /\ resolved' = <<>>

\* C17: with an empty target list install returns False without init_transaction
\* and leaves total_packages_to_download as it was; with a non-empty one it sets
\* total_packages_to_download to the number of distinct targets, and an install
\* that reaches finalize_transaction has added exactly that many packages, one per
\* target name, before prepare.
C17_TargetCount ==
    /\ []((op = "install" /\ resolved # <<>>) =>
            /\ total_packages_to_download = Cardinality(Range(resolved))
            /\ (pc = "finalize" \/ Calls("prepare") # {}) =>
                  /\ Cardinality(Calls("add_pkg")) = total_packages_to_download
                  /\ {trace[i].arg.name : i \in Calls("add_pkg")} = Range(resolved)
                  /\ \A i \in Calls("add_pkg"), j \in Calls("prepare") : i < j)
    /\ [][InstallOfNothing =>
             /\ pc' = "done" /\ result' = "False" /\ trace' = <<>>
             /\ total_packages_to_download' = total_packages_to_download]_vars

\* an install that resolved nothing, after one that had set the count
C17_Witness ==
    /\ op = "install" /\ pc = "done" /\ result = "False"
    /\ pkgs # <<>> /\ resolved = <<>> /\ trace = <<>>
    /\ total_packages_to_download > 0

\* the positions of syncdbs whose repository defines the group g
Defining(g) == {i \in DOMAIN syncdbs : syncdbs[i].grp[g] # {}}

FirstDefining(g) == CHOOSE i \in Defining(g) : \A j \in Defining(g) : i <= j

\* C18: a requested name that is not a package of the repositories searched but is
\* a group of some repository stands for the members the first repository, in
\* configured order, gives for that group, less the names of the conflict list;
\* with an empty conflict list an install that reaches finalize_transaction has
\* added every member.
C18_GroupExpansion ==
    op = "install" =>
        \A g \in Range(pkgs) :
            (g \in GroupNames /\ ~IsPackage(g) /\ Defining(g) # {}) =>
                LET members == syncdbs[FirstDefining(g)].grp[g]
                IN /\ (members \ conflicts) \subseteq Range(resolved)
                   /\ pkgs = <<g>> => Range(resolved) = members \ conflicts
                   /\ (conflicts = {} /\ (pc = "finalize" \/ Calls("prepare") # {})) =>
                         members \subseteq {trace[i].arg.name : i \in Calls("add_pkg")}

\* a group that two repositories define with different members was installed
C18_Witness ==
    /\ op = "install" /\ pc = "done" /\ result = "True" /\ conflicts = {}
    /\ pkgs = <<"base">>
    /\ Cardinality(Defining("base")) = 2
    /\ syncdbs[1].grp["base"] # syncdbs[2].grp["base"]
    /\ {trace[i].arg.name : i \in Calls("add_pkg")} = syncdbs[1].grp["base"]

----------------------------------------------------------------------------
(* refresh *)

\* the number of init calls up to position i of the trace: the repository in hand
InitNo(i) == Cardinality({j \in Calls("init") : j <= i})

\* the transactions of the trace still open after position i
OpenAfter(i) ==
    Cardinality({j \in Calls("init") : j <= i /\ trace[j].ok})
        - Cardinality({j \in Calls("release") : j <= i})

\* C19: refresh opens one transaction for each sync repository, in order, and
\* releases it before it turns to the next one; a repository whose transaction
\* cannot be initialised does not stop the others; refresh returns False exactly
\* when the transaction of some repository could not be initialised; a repository
\* is updated only while its own transaction is open.
C19_RefreshPerRepository ==
    op = "refresh" =>
        /\ Cardinality(Calls("init")) = idx - 1
        /\ \A i \in Calls("init") : i > 1 => OpenAfter(i - 1) = 0
        /\ \A i \in Calls("update") :
              /\ i > 1 /\ trace[i - 1].call = "init" /\ trace[i - 1].ok
              /\ trace[i].arg.repo = syncdbs[InitNo(i)].name
              /\ trace[i].ok => (i < Len(trace) /\ trace[i + 1].call = "release")
        /\ \A i \in Calls("release") : i > 1 /\ trace[i - 1].call = "update"
        /\ (pc = "done" /\ result # "raise") =>
              /\ Cardinality(Calls("init")) = Len(syncdbs)
              /\ result \in {"True", "False"}
              /\ result = "False" <=> \E i \in Calls("init") : ~trace[i].ok

\* the first repository got no transaction, the second one was updated all the same
C19_Witness ==
    /\ op = "refresh" /\ pc = "done" /\ result = "False" /\ open = 0
    /\ trace[1].call = "init" /\ ~trace[1].ok
    /\ \E i \in Calls("update") : trace[i].ok /\ trace[i].arg.repo = syncdbs[2].name

----------------------------------------------------------------------------
(* What last_event remembers *)

\* C23: with a queue attached, last_event holds for a kind the text of the last
\* event of that kind that was put on the queue, and nothing for a kind of which
\* no event was put: an event dropped on a full queue leaves no trace in it, so it
\* cannot make a later event pass for a duplicate.
C23_LastEventIsLastEnqueued ==
    callback_queue =>
        \A kind \in {"info", "percent"} :
            LET s == SentOfKind(kind)
            IN IF s = <<>> THEN kind \notin DOMAIN last_event
               ELSE kind \in DOMAIN last_event /\ last_event[kind] = s[Len(s)].text

----------------------------------------------------------------------------
(* The order of the engine calls on one transaction *)

\* the stage of the transaction lifecycle an engine call belongs to
Stage(c) ==
    CASE c = "init" -> 0
      [] c \in {"add_pkg", "remove_pkg", "update"} -> 1
      [] c = "prepare" -> 2
      [] c = "commit" -> 3
      [] c = "release" -> 4

\* positions i and j of the trace are calls on the same transaction
SameHandle(i, j) == InitNo(i) = InitNo(j)

\* C21: the engine calls on one transaction come in the order init, then add_pkg
\* or remove_pkg, then prepare, then commit, then release: no stage comes before
\* an earlier one, prepare, commit and release come once, commit directly follows
\* a prepare that returned without error, and nothing is called on a transaction
\* after its release nor on one that init did not give.
C21_LifecycleOrder ==
    (op # "none" /\ trace # <<>>) =>
        /\ trace[1].call = "init"
        /\ \A i, j \in DOMAIN trace :
              (i < j /\ SameHandle(i, j)) =>
                  /\ Stage(trace[i].call) <= Stage(trace[j].call)
                  /\ Stage(trace[j].call) >= 2 => Stage(trace[i].call) < Stage(trace[j].call)
        /\ \A j \in Calls("commit") : trace[j - 1].call = "prepare" /\ trace[j - 1].ok
        /\ \A i \in Calls("init") :
              (~trace[i].ok /\ i < Len(trace)) => trace[i + 1].call = "init"
        /\ \A i \in Calls("release") : i < Len(trace) => trace[i + 1].call = "init"

\* an install went through every stage: two packages added, prepared, committed,
\* released
C21_Witness ==
    /\ op = "install" /\ pc = "done" /\ result = "True"
    /\ Cardinality(Calls("add_pkg")) = 2
    /\ Calls("prepare") # {} /\ Calls("commit") # {}
    /\ trace[Len(trace)].call = "release"

----------------------------------------------------------------------------
(* The flags init_transaction derives from the options *)

\* options['recursive'], 0 when it is left out
Recursive == IF "recursive" \in DOMAIN options THEN options["recursive"] ELSE 0

\* C22: the flags follow the options: recursive 0 or absent gives recurse and
\* recurseall false, recursive 1 gives recurse alone, recursive 2 or more gives
\* both (recurseall implies recurse); alldeps and allexplicit are never both true
\* and are both false when mode is absent.
C22_FlagsFromOptions ==
    /\ Recursive = 0 => (~flags.recurse /\ ~flags.recurseall)
    /\ Recursive = 1 => (flags.recurse /\ ~flags.recurseall)
    /\ Recursive >= 2 => (flags.recurse /\ flags.recurseall)
    /\ flags.recurseall => flags.recurse
    /\ ~(flags.alldeps /\ flags.allexplicit)
    /\ "mode" \notin DOMAIN options => (~flags.alldeps /\ ~flags.allexplicit)

\* a transaction was opened with recursive 1 and the as-dependency mode
C22_Witness ==
    /\ open = 1
    /\ "recursive" \in DOMAIN options /\ options["recursive"] = 1
    /\ "mode" \in DOMAIN options /\ options["mode"] = PKG_REASON_DEPEND
    /\ flags.recurse /\ flags.alldeps


====
